---- MODULE Spec2Model ----
(***************************************************************************)
(* pH regulation controller of Ph.cpp (first variant, lines 1-191): the    *)
(* cooperative loop() of an ESP8266 sketch that polls the serial command   *)
(* channel, samples the pH probe every pH_read_interval ms, arms one of    *)
(* two dosing valves and releases it after valve_activation_time ms.       *)
(*                                                                         *)
(* Numbers.  A float is the integer of its IEEE 754 bit pattern, and the   *)
(* arithmetic of the sketch is done as the compiled code does it: float    *)
(* operands are widened to double where a double literal takes part, each  *)
(* operation is rounded to nearest (a tie to even), and the result is      *)
(* rounded again when it is stored in a float.  The exact arithmetic this  *)
(* needs is done on whole numbers of any size, kept as sequences of limbs. *)
(* Times are milliseconds.  millis() is an unsigned long, 32 bits wide on  *)
(* the ESP8266, that wraps at 2^32.  The model checker's integers are      *)
(* 32-bit signed, so an unsigned long is held as the pair <<hi, lo>> of    *)
(* its two 16-bit halves, and every product below is kept under 2^31.      *)
(* Text is a sequence of one-character strings.                            *)
(***************************************************************************)
EXTENDS Integers, Sequences, FiniteSets, TLC

----------------------------------------------------------------------------
(* Program constants *)

valve_activation_time == 2000
pH_read_interval == 5000
ADC_MAX == 1023                     \* the divisor 1023.0 of read_pH
SerialTimeout == 1000               \* Stream timeout of readStringUntil, ms
LoopDelay == 10                     \* delay(10) closing every pass
SetupDelay == 10                    \* delay(10) opening setup()
WifiPollDelay == 500                \* delay(500) of every poll of connect_wifi
ULONG_BITS == 32                    \* width of unsigned long
PrintDecimals == 2                  \* decimals of Serial.print(float)

(* EEPROM layout *)
EEPROM_SIZE == 128
PH_LOW_ADDR == 0
PH_HIGH_ADDR_Overlapping == PH_LOW_ADDR + 2
PH_HIGH_ADDR == 4
FLOAT_SIZE == 4                     \* sizeof(float)

----------------------------------------------------------------------------
(* Bounds of the model *)

MaxPasses == 4          \* passes of loop() a run is followed for
FairPasses == 2         \* the same, and then for as long as a valve is open
FastPasses == 8         \* the same, in a fast loop
CommandPasses == 3      \* the same, where every line of Lines is sent
MaxSkew == 1            \* most ms between loop()'s and control_pH()'s millis()
FastPassLimit == 1000   \* most ms from one pass to the next in a fast loop

(* unsigned long: the range of one 16-bit half, and the pair for a number  *)
(* 0 <= n < 2^31                                                           *)
HalfRange == 2 ^ (ULONG_BITS \div 2)
ULong(n) == << n \div HalfRange, n % HalfRange >>

(* Time Serial.readStringUntil('\n') takes when there is input: none when  *)
(* the whole line is in the receive buffer; SerialTimeout when the line    *)
(* has no newline, the read ending that long after its last character;     *)
(* and, every character restarting the timeout, as long as the sender      *)
(* takes over a line it sends slowly, here a whole acquisition interval.   *)
SerialWaits == {0, SerialTimeout, pH_read_interval}

(* The same in a fast loop, where the newline of a line comes at the       *)
(* latest so that the pass, the time between its two millis() and its      *)
(* delay(10) included, is no longer than FastPassLimit.                    *)
FastSerialWaits == {0, FastPassLimit - LoopDelay - MaxSkew}

(* Raw ADC samples offered to analogRead(). *)
AnalogSamples == {500, 592, 645}

(* Number of polls of connect_wifi before the station is connected, each a *)
(* wait of 500 ms and one dot printed: setup() returns 5 s after it was    *)
(* entered, when the first acquisition is due already, or, after 49 days   *)
(* without a connection, shortly before the counter wraps (2^32 - 1286).   *)
WifiWaits == {10, 8589932}

----------------------------------------------------------------------------
(* Whole numbers of any size, for exact binary floating point.  A number   *)
(* is the sequence of its limbs of LimbBits bits, least significant first, *)
(* with no zero limb at the top; zero is the empty sequence.               *)

(* The value v under the name of the parameter of F *)
With(v, F(_)) == F(v)
With2(v, w, F(_, _)) == F(v, w)

LimbBits == (ULONG_BITS \div 2) - 1
LimbBase == 2 ^ LimbBits

BigLimb(a, i) == IF i <= Len(a) THEN a[i] ELSE 0

RECURSIVE BigTrim(_)
BigTrim(a) ==
  IF Len(a) = 0 THEN a
  ELSE IF a[Len(a)] = 0 THEN BigTrim(SubSeq(a, 1, Len(a) - 1))
  ELSE a

(* The number n, 0 <= n < 2^31 *)
BigOf(n) ==
  BigTrim(<< n % LimbBase, (n \div LimbBase) % LimbBase,
             n \div (LimbBase * LimbBase) >>)

(* The number a as an integer, for a < 2^31 *)
BigToInt(a) ==
  BigLimb(a, 1) + LimbBase * BigLimb(a, 2) + LimbBase * LimbBase * BigLimb(a, 3)

BigAdd(a, b) ==
  LET RECURSIVE AddFrom(_, _)
      AddFrom(i, carry) ==
        IF i > Len(a) /\ i > Len(b) THEN IF carry = 0 THEN << >> ELSE << carry >>
        ELSE << (BigLimb(a, i) + BigLimb(b, i) + carry) % LimbBase >>
             \o AddFrom(i + 1,
                        (BigLimb(a, i) + BigLimb(b, i) + carry) \div LimbBase)
  IN AddFrom(1, 0)

(* a - b, for a >= b *)
BigSub(a, b) ==
  LET RECURSIVE SubFrom(_, _)
      SubFrom(i, borrow) ==
        IF i > Len(a) THEN << >>
        ELSE << (a[i] - BigLimb(b, i) - borrow) % LimbBase >>
             \o SubFrom(i + 1,
                        IF a[i] - BigLimb(b, i) - borrow < 0 THEN 1 ELSE 0)
  IN BigTrim(SubFrom(1, 0))

(* -1, 0 or 1 as a is less than, equal to or greater than b *)
BigCmp(a, b) ==
  LET RECURSIVE CmpAt(_)
      CmpAt(i) ==
        IF i = 0 THEN 0
        ELSE IF a[i] > b[i] THEN 1
        ELSE IF a[i] < b[i] THEN -1
        ELSE CmpAt(i - 1)
  IN IF Len(a) > Len(b) THEN 1
     ELSE IF Len(a) < Len(b) THEN -1
     ELSE CmpAt(Len(a))

(* a * k, for 0 <= k <= LimbBase *)
BigMulSmall(a, k) ==
  LET RECURSIVE MulFrom(_, _)
      MulFrom(i, carry) ==
        IF i > Len(a) THEN IF carry = 0 THEN << >> ELSE << carry >>
        ELSE << (a[i] * k + carry) % LimbBase >>
             \o MulFrom(i + 1, (a[i] * k + carry) \div LimbBase)
  IN IF k = 0 THEN << >> ELSE MulFrom(1, 0)

(* a * LimbBase^n *)
BigShiftLimbs(a, n) == IF Len(a) = 0 THEN a ELSE [i \in 1..n |-> 0] \o a

(* a * 2^n *)
BigShl(a, n) ==
  BigShiftLimbs(BigMulSmall(a, 2 ^ (n % LimbBits)), n \div LimbBits)

(* a * b *)
BigMul(a, b) ==
  LET RECURSIVE MulAt(_)
      MulAt(i) ==
        IF i > Len(b) THEN << >>
        ELSE BigAdd(BigShiftLimbs(BigMulSmall(a, b[i]), i - 1), MulAt(i + 1))
  IN MulAt(1)

(* The whole part of a / d, for 0 < d <= LimbBase *)
BigDivSmall(a, d) ==
  LET RECURSIVE DivAt(_, _)
      DivAt(i, rem) ==
        IF i = 0 THEN << >>
        ELSE DivAt(i - 1, (rem * LimbBase + a[i]) % d)
             \o << (rem * LimbBase + a[i]) \div d >>
  IN BigTrim(DivAt(Len(a), 0))

(* The whole part of a / 2^n *)
BigShr(a, n) ==
  IF n \div LimbBits >= Len(a) THEN << >>
  ELSE BigDivSmall(SubSeq(a, (n \div LimbBits) + 1, Len(a)), 2 ^ (n % LimbBits))

(* Number of bits of a: 2^(BigBitLen(a) - 1) <= a < 2^BigBitLen(a) *)
BigBitLen(a) ==
  IF Len(a) = 0 THEN 0
  ELSE LimbBits * (Len(a) - 1)
       + (CHOOSE k \in 1..LimbBits : a[Len(a)] < 2 ^ k /\ a[Len(a)] >= 2 ^ (k - 1))

(* The whole part q of a / d and the remainder, as << q, r >>, by binary   *)
(* long division, LimbBits bits of q at a time: DivBits finds the bits of  *)
(* q from bit i down to bit stop, r being what is left of a and q the bits *)
(* found so far                                                            *)
RECURSIVE DivBits(_, _, _, _, _)
DivBits(d, r, i, stop, q) ==
  IF Len(q) >= 0 /\ i < stop THEN << q, r >>
  ELSE With(BigShl(d, i), LAMBDA ds :
         IF BigCmp(r, ds) >= 0
           THEN DivBits(d, BigSub(r, ds), i - 1, stop,
                        BigAdd(BigMulSmall(q, 2), << 1 >>))
         ELSE DivBits(d, r, i - 1, stop, BigMulSmall(q, 2)))

RECURSIVE DivLimbs(_, _, _)
DivLimbs(d, qr, i) ==
  IF Len(qr) >= 0 /\ i < 0 THEN qr
  ELSE DivLimbs(d,
                DivBits(d, qr[2], i,
                        IF i < LimbBits THEN 0 ELSE i - LimbBits + 1, qr[1]),
                i - LimbBits)

BigDivMod(a, d) ==
  IF BigCmp(a, d) < 0 THEN << << >>, a >>
  ELSE DivLimbs(d, << << >>, a >>, BigBitLen(a) - BigBitLen(d))

(* 10^k *)
RECURSIVE BigPow10(_)
BigPow10(k) ==
  IF k >= 4 THEN BigMulSmall(BigPow10(k - 4), 10000) ELSE << 10 ^ k >>

----------------------------------------------------------------------------
(* Binary floating point.  A dyadic number is the record of its sign neg,  *)
(* its whole magnitude m and its binary exponent e: (-1)^neg * m * 2^e.    *)
(* A double is a dyadic number with m < 2^53; a float is the integer of    *)
(* its IEEE 754 bit pattern (see FloatOfDyadic).                           *)

Dyadic(neg, m, e) == [neg |-> neg, m |-> m, e |-> e]
DyNeg(x) == Dyadic(~x.neg, x.m, x.e)
DyIsZero(x) == Len(x.m) = 0

(* a / 2^drop rounded to the nearest whole number, a tie to the even one;  *)
(* sticky: a stands for a number slightly above a.  cmp compares the       *)
(* dropped bits with a half.                                               *)
BigRoundShr(a, drop, sticky) ==
  With(BigShr(a, drop), LAMBDA q :
    With(BigCmp(BigSub(a, BigShl(q, drop)), BigShl(<< 1 >>, drop - 1)),
         LAMBDA cmp :
           IF cmp > 0 \/ (cmp = 0 /\ (sticky \/ (Len(q) > 0 /\ q[1] % 2 = 1)))
             THEN BigAdd(q, << 1 >>)
           ELSE q))

(* (-1)^neg * m * 2^e rounded to p bits of magnitude *)
DyRound(p, neg, m, e, sticky) ==
  With(BigBitLen(m), LAMBDA len :
    IF len <= p THEN Dyadic(neg, m, e)
    ELSE Dyadic(neg, BigRoundShr(m, len - p, sticky), e + (len - p)))

(* (-1)^neg * (n / d) * 2^e rounded to p bits, for d > 0: the quotient is  *)
(* taken with at least two bits more than p, then rounded                  *)
DyRatio(p, neg, n, d, e) ==
  IF Len(n) = 0 THEN Dyadic(neg, << >>, 0)
  ELSE With(p + 2 - (BigBitLen(n) - BigBitLen(d)), LAMBDA k :
         With(BigDivMod(IF k > 0 THEN BigShl(n, k) ELSE n,
                        IF k < 0 THEN BigShl(d, 0 - k) ELSE d),
              LAMBDA qr : DyRound(p, neg, qr[1], e - k, Len(qr[2]) > 0)))

(* Exact sum of two dyadic numbers: the magnitudes are brought to the      *)
(* smaller exponent e, then added or subtracted                            *)
DySum(x, y) ==
  IF DyIsZero(x) /\ DyIsZero(y) THEN Dyadic(x.neg /\ y.neg, << >>, 0)
  ELSE IF DyIsZero(x) THEN y
  ELSE IF DyIsZero(y) THEN x
  ELSE With(IF x.e < y.e THEN x.e ELSE y.e, LAMBDA e :
         With2(BigShl(x.m, x.e - e), BigShl(y.m, y.e - e), LAMBDA xm, ym :
           IF x.neg = y.neg THEN Dyadic(x.neg, BigAdd(xm, ym), e)
           ELSE With(BigCmp(xm, ym), LAMBDA cmp :
                  IF cmp = 0 THEN Dyadic(FALSE, << >>, 0)
                  ELSE IF cmp > 0 THEN Dyadic(x.neg, BigSub(xm, ym), e)
                  ELSE Dyadic(y.neg, BigSub(ym, xm), e))))

(* -1, 0 or 1 as x is less than, equal to or greater than y *)
DyCmp(x, y) ==
  With(DySum(x, DyNeg(y)), LAMBDA d :
    IF DyIsZero(d) THEN 0 ELSE IF d.neg THEN -1 ELSE 1)

(* Exact product *)
DyProduct(x, y) == Dyadic(x.neg # y.neg, BigMul(x.m, y.m), x.e + y.e)

(* The whole part of the magnitude of x, for a magnitude below 2^31 *)
DyTrunc(x) ==
  IF x.e >= 0 THEN BigToInt(BigShl(x.m, x.e)) ELSE BigToInt(BigShr(x.m, 0 - x.e))

----------------------------------------------------------------------------
(* Floats.  A float is the integer whose magnitude is the low 31 bits of   *)
(* its IEEE 754 single-precision bit pattern (8 exponent bits, then 23     *)
(* fraction bits) and whose sign is the sign bit; -0.0, whose magnitude is *)
(* 0, is NegZero.  The order of two floats that are not NaN is the order   *)
(* of these integers.                                                      *)

FLOAT_BITS == 24
FractionRange == 2 ^ (FLOAT_BITS - 1)
FLT_MAX_EXP == 127
FLT_MIN_EXP == 0 - 126
FLT_DENORM_EXP == FLT_MIN_EXP - (FLOAT_BITS - 1)

PosInf == (2 * FLT_MAX_EXP + 1) * FractionRange
NegZero == (0 - 2147483647) - 1

(* The NaN that arithmetic and "nan" give, and the NaN of an erased EEPROM *)
(* cell (all bits set)                                                     *)
NaN == PosInf + (FractionRange \div 2)
ErasedFloat == 0 - 2147483647

FloatMag(f) == IF f = NegZero THEN 0 ELSE IF f < 0 THEN 0 - f ELSE f
FloatNeg(f) == f < 0
IsNaN(f) == FloatMag(f) > PosInf
IsInf(f) == FloatMag(f) = PosInf
FloatWithSign(neg, mag) ==
  IF ~neg THEN mag ELSE IF mag = 0 THEN NegZero ELSE 0 - mag

(* The place of a float that is not NaN in the order of the floats *)
FloatOrder(f) == IF f = NegZero THEN 0 ELSE f

(* Float comparison: every ordered comparison with NaN is false. *)
FLess(a, b) == ~IsNaN(a) /\ ~IsNaN(b) /\ FloatOrder(a) < FloatOrder(b)
FGreater(a, b) == ~IsNaN(a) /\ ~IsNaN(b) /\ FloatOrder(a) > FloatOrder(b)

(* The finite float f as a dyadic number *)
DyOfFloat(f) ==
  IF FloatMag(f) < FractionRange
    THEN Dyadic(FloatNeg(f), BigOf(FloatMag(f)), FLT_DENORM_EXP)
  ELSE Dyadic(FloatNeg(f),
              BigOf(FractionRange + (FloatMag(f) % FractionRange)),
              (FloatMag(f) \div FractionRange) - 1 + FLT_DENORM_EXP)

(* The float nearest to the dyadic number x, a tie to the one with an even *)
(* fraction: an infinity past the largest float, a multiple of 2^-149      *)
(* below 2^-126.  m24 is the magnitude rounded to 24 bits (2^24 when the   *)
(* rounding carried), e the exponent of the top bit of the magnitude.      *)
FloatOfDyadic(x) ==
  LET OfNormal(m24, e) ==
        IF m24 = 2 * FractionRange THEN
          IF e + 1 > FLT_MAX_EXP THEN FloatWithSign(x.neg, PosInf)
          ELSE FloatWithSign(x.neg, (e + 1 + FLT_MAX_EXP) * FractionRange)
        ELSE IF e > FLT_MAX_EXP THEN FloatWithSign(x.neg, PosInf)
        ELSE FloatWithSign(x.neg,
                           (e + FLT_MAX_EXP) * FractionRange + (m24 - FractionRange))
  IN IF DyIsZero(x) THEN FloatWithSign(x.neg, 0)
     ELSE With(BigBitLen(x.m), LAMBDA len :
       IF x.e + len - 1 < FLT_MIN_EXP THEN
         IF x.e >= FLT_DENORM_EXP
           THEN FloatWithSign(x.neg, BigToInt(BigShl(x.m, x.e - FLT_DENORM_EXP)))
         ELSE IF FLT_DENORM_EXP - x.e > len + 1 THEN FloatWithSign(x.neg, 0)
         ELSE FloatWithSign(x.neg,
                            BigToInt(BigRoundShr(x.m, FLT_DENORM_EXP - x.e, FALSE)))
       ELSE IF x.e + len - 1 > FLT_MAX_EXP THEN FloatWithSign(x.neg, PosInf)
       ELSE IF len <= FLOAT_BITS
         THEN OfNormal(BigToInt(BigShl(x.m, FLOAT_BITS - len)), x.e + len - 1)
       ELSE OfNormal(BigToInt(BigRoundShr(x.m, len - FLOAT_BITS, FALSE)),
                     x.e + len - 1))

----------------------------------------------------------------------------
(* Doubles.  A double is a record: of kind "num", a dyadic number whose    *)
(* magnitude has at most DOUBLE_BITS bits, or "inf" with a sign, or "nan". *)
(* The operations give the exact result rounded to DOUBLE_BITS bits, a tie *)
(* to even, and an infinity from 2^1024.  (The expressions of the sketch,  *)
(* on floats, never come near the smallest doubles, below 2^-1022, where   *)
(* the precision of a double falls off.)                                   *)

DOUBLE_BITS == 53
DBL_MAX_EXP == 1023

DNum(x) == [k |-> "num", neg |-> x.neg, m |-> x.m, e |-> x.e]
DInf(neg) == [k |-> "inf", neg |-> neg, m |-> << >>, e |-> 0]
DNaN == [k |-> "nan", neg |-> FALSE, m |-> << >>, e |-> 0]
DIsZero(x) == x.k = "num" /\ Len(x.m) = 0

(* The double nearest to a dyadic number *)
DInRange(x) ==
  IF Len(x.m) > 0 /\ x.e + BigBitLen(x.m) - 1 > DBL_MAX_EXP
    THEN DInf(x.neg) ELSE DNum(x)
DRoundOf(x) == DInRange(DyRound(DOUBLE_BITS, x.neg, x.m, x.e, FALSE))

(* The whole number n, and the decimal literal n / d, as doubles *)
DOfInt(n) == DNum(Dyadic(n < 0, BigOf(IF n < 0 THEN 0 - n ELSE n), 0))
DLiteral(n, d) ==
  DInRange(DyRatio(DOUBLE_BITS, FALSE, BigOf(n), BigOf(d), 0))

(* x + y, x - y, x * y, x / y *)
DAdd(x, y) ==
  IF x.k = "nan" \/ y.k = "nan" THEN DNaN
  ELSE IF x.k = "inf" /\ y.k = "inf" THEN IF x.neg = y.neg THEN x ELSE DNaN
  ELSE IF x.k = "inf" THEN x
  ELSE IF y.k = "inf" THEN y
  ELSE DRoundOf(DySum(x, y))
DSub(x, y) == DAdd(x, [y EXCEPT !.neg = ~y.neg])
DMul(x, y) ==
  IF x.k = "nan" \/ y.k = "nan" THEN DNaN
  ELSE IF x.k = "inf" \/ y.k = "inf" THEN
    IF DIsZero(x) \/ DIsZero(y) THEN DNaN ELSE DInf(x.neg # y.neg)
  ELSE DRoundOf(DyProduct(x, y))
DDiv(x, y) ==
  IF x.k = "nan" \/ y.k = "nan" THEN DNaN
  ELSE IF x.k = "inf" THEN IF y.k = "inf" THEN DNaN ELSE DInf(x.neg # y.neg)
  ELSE IF y.k = "inf" THEN DNum(Dyadic(x.neg # y.neg, << >>, 0))
  ELSE IF DIsZero(y) THEN IF DIsZero(x) THEN DNaN ELSE DInf(x.neg # y.neg)
  ELSE DInRange(DyRatio(DOUBLE_BITS, x.neg # y.neg, x.m, y.m, x.e - y.e))

(* The conversions between float and double: (double)f is exact, (float)x  *)
(* rounds to the nearest float                                             *)
DOfFloat(f) ==
  IF IsNaN(f) THEN DNaN
  ELSE IF IsInf(f) THEN DInf(FloatNeg(f))
  ELSE DNum(DyOfFloat(f))
FloatOfDouble(x) ==
  IF x.k = "nan" THEN NaN
  ELSE IF x.k = "inf" THEN FloatWithSign(x.neg, PosInf)
  ELSE FloatOfDyadic(x)

(* a - b in float arithmetic: the exact difference rounded to a float *)
FSub(a, b) ==
  IF IsNaN(a) \/ IsNaN(b) THEN NaN
  ELSE IF IsInf(a) /\ IsInf(b) THEN IF FloatNeg(a) = FloatNeg(b) THEN NaN ELSE a
  ELSE IF IsInf(a) THEN a
  ELSE IF IsInf(b) THEN FloatWithSign(~FloatNeg(b), PosInf)
  ELSE FloatOfDyadic(DySum(DyOfFloat(a), DyNeg(DyOfFloat(b))))

(* The float of the decimal literal n / d: the double, converted *)
FloatLiteral(n, d) == FloatOfDouble(DLiteral(n, d))
----------------------------------------------------------------------------
(* Unsigned long arithmetic on pairs of halves *)

(* a < b *)
ULongLess(a, b) == a[1] < b[1] \/ (a[1] = b[1] /\ a[2] < b[2])

(* a + n modulo 2^32, for a number 0 <= n < 2^31 *)
ULongAdd(a, n) ==
  LET lo == a[2] + (n % HalfRange)
      hi == a[1] + (n \div HalfRange) + (lo \div HalfRange)
  IN << hi % HalfRange, lo % HalfRange >>

(* a - b on unsigned long: the difference modulo 2^32 *)
USub_Saturating(a, b) ==
  IF ULongLess(a, b) THEN << 0, 0 >>
  ELSE LET borrow == IF a[2] < b[2] THEN 1 ELSE 0
       IN << a[1] - b[1] - borrow, (a[2] - b[2]) % HalfRange >>
USub(a, b) ==
  LET borrow == IF a[2] < b[2] THEN 1 ELSE 0
  IN << (a[1] - b[1] - borrow) % HalfRange, (a[2] - b[2]) % HalfRange >>

(* now - last >= interval, on unsigned long *)
Elapsed_Deadline(now, last, interval) ==
  LET deadline == ULongAdd(last, interval)
  IN ~ULongLess(deadline, last) /\ ~ULongLess(now, deadline)
Elapsed(now, last, interval) ==
  LET Geq(a, n) == a[1] >= HalfRange \div 2 \/ a[1] * HalfRange + a[2] >= n
  IN Geq(USub(now, last), interval)

----------------------------------------------------------------------------
(* Arduino String operations used by handle_serial_input *)

(* isspace: space, \t, \n, vertical tab (0x0B), \f, \r *)
IsSpace(c) == c \in {" ", "\t", "\n", "", "\f", "\r"}
IsDigit(c) == c \in {"0", "1", "2", "3", "4", "5", "6", "7", "8", "9"}

DigitVal(c) ==
  CASE c = "0" -> 0 [] c = "1" -> 1 [] c = "2" -> 2 [] c = "3" -> 3
    [] c = "4" -> 4 [] c = "5" -> 5 [] c = "6" -> 6 [] c = "7" -> 7
    [] c = "8" -> 8 [] c = "9" -> 9 [] OTHER -> 0

(* String::toLowerCase: tolower of every character *)
toLowerCase(s) ==
  LET Capitals ==
        [ A |-> "a", B |-> "b", C |-> "c", D |-> "d", E |-> "e", F |-> "f",
          G |-> "g", H |-> "h", I |-> "i", J |-> "j", K |-> "k", L |-> "l",
          M |-> "m", N |-> "n", O |-> "o", P |-> "p", Q |-> "q", R |-> "r",
          S |-> "s", T |-> "t", U |-> "u", V |-> "v", W |-> "w", X |-> "x",
          Y |-> "y", Z |-> "z" ]
      LowerChar(c) == IF c \in DOMAIN Capitals THEN Capitals[c] ELSE c
  IN [i \in 1..Len(s) |-> LowerChar(s[i])]

(* String::trim: drop leading and trailing whitespace *)
trim(s) ==
  LET keep == {i \in 1..Len(s) : ~IsSpace(s[i])}
  IN IF keep = {} THEN << >>
     ELSE LET first == CHOOSE i \in keep : \A j \in keep : i <= j
              last == CHOOSE i \in keep : \A j \in keep : i >= j
          IN SubSeq(s, first, last)

startsWith_LengthOnly(s, p) == Len(s) >= Len(p)
startsWith(s, p) == Len(s) >= Len(p) /\ SubSeq(s, 1, Len(p)) = p

(* String::indexOf: 0-based index of the first c, -1 when there is none *)
indexOf(s, c) ==
  LET hits == {i \in 1..Len(s) : s[i] = c}
  IN IF hits = {} THEN -1
     ELSE (CHOOSE i \in hits : \A j \in hits : i <= j) - 1

(* String::substring(left, right): 0-based, right exclusive, clipped *)
substring(s, left, right) ==
  LET lo == IF left > right THEN right ELSE left
      hi0 == IF left > right THEN left ELSE right
      hi == IF hi0 > Len(s) THEN Len(s) ELSE hi0
  IN IF lo >= Len(s) THEN << >> ELSE SubSeq(s, lo + 1, hi)

substringFrom(s, left) == substring(s, left, Len(s))

----------------------------------------------------------------------------
(* String::toFloat, which is atof: strtod, and the double converted to a   *)
(* float                                                                   *)

(* Number of consecutive digits of s starting at (1-based) position i *)
RECURSIVE DigitRun(_, _)
DigitRun(s, i) ==
  IF i <= Len(s) /\ IsDigit(s[i]) THEN 1 + DigitRun(s, i + 1) ELSE 0

(* Value of the n digits of s starting at position i *)
RECURSIVE DigitsValue(_, _, _)
DigitsValue(s, i, n) ==
  IF n = 0 THEN 0
  ELSE 10 * DigitsValue(s, i, n - 1) + DigitVal(s[i + n - 1])

(* Hexadecimal digits *)
IsHexDigit(c) == IsDigit(c) \/ c \in {"a", "b", "c", "d", "e", "f"}
HexVal(c) ==
  CASE c = "a" -> 10 [] c = "b" -> 11 [] c = "c" -> 12 [] c = "d" -> 13
    [] c = "e" -> 14 [] c = "f" -> 15 [] OTHER -> DigitVal(c)
RECURSIVE HexRun(_, _)
HexRun(s, i) ==
  IF i <= Len(s) /\ IsHexDigit(s[i]) THEN 1 + HexRun(s, i + 1) ELSE 0

(* The character of t at position i, "" past its ends *)
CharAt(t, i) == IF i >= 1 /\ i <= Len(t) THEN t[i] ELSE ""

(* Number of consecutive zeros of s starting at position i *)
RECURSIVE ZeroRun(_, _)
ZeroRun(s, i) ==
  IF CharAt(s, i) = "0" THEN 1 + ZeroRun(s, i + 1) ELSE 0

(* The exponent whose letter is at position i of t: its digits start at    *)
(* st, after an optional sign, and are n, of which the first z are zeros.  *)
(* The exponent is applied as written.  One of more than 9 significant     *)
(* digits is past what the digits of any text shorter than 10^9 - 50       *)
(* characters can bring back into the range of a float, and stands as      *)
(* 10^9 - 1, which gives the same infinity or zero.                        *)
ExponentAt(t, i, letter) ==
  LET ExponentValue(st, n, z) ==
        IF n - z > 9 THEN 999999999 ELSE DigitsValue(t, st + z, n - z)
      ExponentSigned(st, n) ==
        IF CharAt(t, i) # letter \/ n = 0 THEN 0
        ELSE IF CharAt(t, i + 1) = "-"
          THEN 0 - ExponentValue(st, n, ZeroRun(t, st))
        ELSE ExponentValue(st, n, ZeroRun(t, st))
      ExponentFrom(st) == ExponentSigned(st, DigitRun(t, st))
  IN ExponentFrom(IF CharAt(t, i + 1) \in {"-", "+"} THEN i + 2 ELSE i + 1)

(* The whole number whose digits in the given base are ds[1..n] *)
RECURSIVE BigOfDigits(_, _, _)
BigOfDigits(ds, n, base) ==
  IF n = 0 THEN << >>
  ELSE BigAdd(BigMulSmall(BigOfDigits(ds, n - 1, base), base), BigOf(ds[n]))

(* Position of the first digit of ds that is not 0 *)
FirstNonZero(ds) ==
  CHOOSE k \in 1..Len(ds) : ds[k] # 0 /\ \A l \in 1..(k - 1) : ds[l] = 0

(* The magnitude of the decimal number at position st of t, with ni digits *)
(* before the point, nf after it and the exponent exp: the float of        *)
(* n * 10^e10, the nearest double converted.  The number is at least       *)
(* 10^(order-1) and less than 10^order: from 10^40 it is past every float  *)
(* and becomes an infinity, below 10^-50 it is nearest to 0.               *)
DecimalAt(t, st, ni) ==
  With(IF CharAt(t, st + ni) = "." THEN DigitRun(t, st + ni + 1) ELSE 0,
       LAMBDA nf :
  With2([k \in 1..(ni + nf) |->
           IF k <= ni THEN DigitVal(t[st + k - 1]) ELSE DigitVal(t[st + k])],
        ExponentAt(t, IF CharAt(t, st + ni) = "." THEN st + ni + 1 + nf
                      ELSE st + ni, "e"),
        LAMBDA ds, exp :
    IF \A k \in 1..Len(ds) : ds[k] = 0 THEN 0
    ELSE With(ni + exp - (FirstNonZero(ds) - 1), LAMBDA order :
      IF order > 40 THEN PosInf
      ELSE IF order < 0 - 50 THEN 0
      ELSE With2(BigOfDigits(ds, Len(ds), 10), ni + exp - Len(ds),
                 LAMBDA n, e10 :
             FloatOfDouble(
               IF e10 >= 0
                 THEN DRoundOf(Dyadic(FALSE, BigMul(n, BigPow10(e10)), 0))
               ELSE DInRange(DyRatio(DOUBLE_BITS, FALSE, n,
                                     BigPow10(0 - e10), 0)))))))

(* The magnitude of the hexadecimal number whose digits start at position  *)
(* hst of t, nh before the point and nhf after it, with the binary         *)
(* exponent bexp.  The number is at least 2^top and less than 2^(top+1):   *)
(* from 2^128 it becomes an infinity, below 2^-150 it is nearest to 0.     *)
HexAt(t, hst, nh) ==
  With(IF CharAt(t, hst + nh) = "." THEN HexRun(t, hst + nh + 1) ELSE 0,
       LAMBDA nhf :
  With2([k \in 1..(nh + nhf) |->
           IF k <= nh THEN HexVal(t[hst + k - 1]) ELSE HexVal(t[hst + k])],
        ExponentAt(t, IF CharAt(t, hst + nh) = "." THEN hst + nh + 1 + nhf
                      ELSE hst + nh, "p"),
        LAMBDA hs, bexp :
    IF \A k \in 1..Len(hs) : hs[k] = 0 THEN 0
    ELSE With(4 * (nh - FirstNonZero(hs))
                + BigBitLen(<< hs[FirstNonZero(hs)] >>) - 1 + bexp,
              LAMBDA top :
      IF top >= FLT_MAX_EXP + 1 THEN PosInf
      ELSE IF top < FLT_DENORM_EXP - 1 THEN 0
      ELSE FloatOfDouble(
             DRoundOf(Dyadic(FALSE, BigOfDigits(hs, Len(hs), 16),
                             bexp - 4 * (Len(hs) - nh)))))))

(* Number of leading whitespace characters of s *)
RECURSIVE SpaceRun(_, _)
SpaceRun(s, i) ==
  IF i <= Len(s) /\ IsSpace(s[i]) THEN 1 + SpaceRun(s, i + 1) ELSE 0

(* Number of consecutive letters, digits and underscores of s starting at  *)
(* position i: the n-char-sequence of nan(n-char-sequence)                 *)
RECURSIVE WordRun(_, _)
WordRun(s, i) ==
  IF i <= Len(s)
     /\ ( IsDigit(s[i]) \/ s[i] = "_"
          \/ s[i] \in {"a", "b", "c", "d", "e", "f", "g", "h", "i", "j", "k",
                       "l", "m", "n", "o", "p", "q", "r", "s", "t", "u", "v",
                       "w", "x", "y", "z"} )
    THEN 1 + WordRun(s, i + 1)
  ELSE 0

(* The NaN of the text nan at position i - 3 of t.  After nan( a sequence  *)
(* of letters, digits and underscores and then ) gives the payload: the    *)
(* sequence w is read by strtoull with base 0 (0x.. hexadecimal, 0..       *)
(* octal, otherwise decimal, ULLONG_MAX from 2^64), counts only when all   *)
(* of it is a number, and its bits 0..50 become the double's mantissa      *)
(* under the quiet bit; the float keeps bits 29..50 of them.               *)
NanAt(t, i) ==
  LET Number(w) ==
        IF Len(w) > 2 /\ w[1] = "0" /\ w[2] = "x" /\ HexRun(w, 3) = Len(w) - 2
          THEN BigOfDigits([k \in 1..(Len(w) - 2) |-> HexVal(w[k + 2])],
                           Len(w) - 2, 16)
        ELSE IF Len(w) > 0 /\ w[1] = "0"
                /\ \A k \in 1..Len(w) : IsDigit(w[k]) /\ DigitVal(w[k]) < 8
          THEN BigOfDigits([k \in 1..Len(w) |-> DigitVal(w[k])], Len(w), 8)
        ELSE IF Len(w) > 0 /\ w[1] # "0" /\ DigitRun(w, 1) = Len(w)
          THEN BigOfDigits([k \in 1..Len(w) |-> DigitVal(w[k])], Len(w), 10)
        ELSE << >>
      Payload(v) ==
        IF BigBitLen(v) > 64 THEN (2 ^ (FLOAT_BITS - 2)) - 1
        ELSE BigToInt(BigSub(BigShr(v, DOUBLE_BITS - FLOAT_BITS),
                             BigShl(BigShr(v, DOUBLE_BITS - 2),
                                    FLOAT_BITS - 2)))
      Sequence(n) ==
        IF CharAt(t, i) = "(" /\ CharAt(t, i + 1 + n) = ")"
          THEN NaN + Payload(Number(SubSeq(t, i + 1, i + n)))
        ELSE NaN
  IN Sequence(IF CharAt(t, i) = "(" THEN WordRun(t, i + 1) ELSE 0)

(* atof: skips leading whitespace, reads an optional sign and the longest  *)
(* prefix that is a number, and ignores what follows.  A number is inf or  *)
(* infinity, nan, a hexadecimal number 0x.. with an optional binary        *)
(* exponent p.., or a decimal number with an optional exponent e.., in     *)
(* either case of letters.  The value is the double nearest to the number, *)
(* converted to the nearest float.  When there is no number, not a digit   *)
(* before or after the point, nothing is converted, the sign included:     *)
(* the result is +0.                                                       *)
atof(s) ==
  With(toLowerCase(SubSeq(s, SpaceRun(s, 1) + 1, Len(s))), LAMBDA t :
  With(IF CharAt(t, 1) \in {"-", "+"} THEN 2 ELSE 1, LAMBDA st :
    IF CharAt(t, st) = "i" /\ CharAt(t, st + 1) = "n"
       /\ CharAt(t, st + 2) = "f"
      THEN FloatWithSign(CharAt(t, 1) = "-", PosInf)
    ELSE IF CharAt(t, st) = "n" /\ CharAt(t, st + 1) = "a"
            /\ CharAt(t, st + 2) = "n"
      THEN FloatWithSign(CharAt(t, 1) = "-", NanAt(t, st + 3))
    ELSE IF CharAt(t, st) = "0" /\ CharAt(t, st + 1) = "x"
            /\ ( IsHexDigit(CharAt(t, st + 2))
                 \/ ( CharAt(t, st + 2) = "."
                      /\ IsHexDigit(CharAt(t, st + 3)) ) )
      THEN FloatWithSign(CharAt(t, 1) = "-",
                         HexAt(t, st + 2, HexRun(t, st + 2)))
    ELSE IF IsDigit(CharAt(t, st))
            \/ ( CharAt(t, st) = "." /\ IsDigit(CharAt(t, st + 1)) )
      THEN FloatWithSign(CharAt(t, 1) = "-",
                         DecimalAt(t, st, DigitRun(t, st)))
    ELSE 0))

----------------------------------------------------------------------------
(* Print::print(float), which is dtostrf(number, 0, 2, buf) on the double  *)

Ten == DOfInt(10)

(* rounding = 2.0; for (i < prec) rounding *= 10.0; rounding = 1.0 / rounding *)
RECURSIVE RoundingDivisor(_)
RoundingDivisor(prec) ==
  IF prec = 0 THEN DOfInt(2) ELSE DMul(RoundingDivisor(prec - 1), Ten)

(* while (number >= 10.0 * tenpow) { tenpow *= 10.0; digitcount++; }:      *)
(* the pair << tenpow, digitcount >> it ends with                          *)
RECURSIVE TenPowerFor(_, _, _)
TenPowerFor(number, tenpow, digitcount) ==
  IF DyCmp(number, DMul(Ten, tenpow)) >= 0
    THEN TenPowerFor(number, DMul(tenpow, Ten), digitcount + 1)
  ELSE << tenpow, digitcount >>

(* The digit loop: digit = (int8_t)number, at most 9; the point after the  *)
(* digit that leaves prec digits to come; number -= digit; number *= 10.0  *)
RECURSIVE DigitsOf(_, _, _)
DigitsOf(number, digitcount, prec) ==
  LET DigitChars == << "0", "1", "2", "3", "4", "5", "6", "7", "8", "9" >>
  IN IF digitcount <= 0 THEN << >>
     ELSE With(IF DyTrunc(number) > 9 THEN 9 ELSE DyTrunc(number),
               LAMBDA digit :
            << DigitChars[digit + 1] >>
              \o (IF digitcount - 1 = prec /\ prec > 0 THEN << "." >>
                  ELSE << >>)
              \o DigitsOf(DMul(DSub(number, DOfInt(digit)), Ten),
                          digitcount - 1, prec))

(* dtostrf(number, 0, prec, buf) for the float v: "nan", "inf" for either  *)
(* infinity, else the sign when v < 0 and the digits of |v| + rounding,    *)
(* scale being the pair TenPowerFor gives                                  *)
dtostrf(v, prec) ==
  IF IsNaN(v) THEN << "n", "a", "n" >>
  ELSE IF IsInf(v) THEN << "i", "n", "f" >>
  ELSE (IF FLess(v, 0) THEN << "-" >> ELSE << >>)
       \o With(DAdd(DNum(DyOfFloat(FloatMag(v))),
                    DDiv(DOfInt(1), RoundingDivisor(prec))),
               LAMBDA number :
            With(TenPowerFor(number, DOfInt(1), 1), LAMBDA scale :
              DigitsOf(DDiv(number, scale[1]), scale[2] + prec, prec)))
----------------------------------------------------------------------------
(* EEPROM.  The store is a sequence of byte cells, cell i at address i-1.  *)
(* EEPROM.put and EEPROM.get copy the sizeof(float) bytes of a float, the  *)
(* bit pattern with the least significant byte first.  An erased cell has  *)
(* all bits set.                                                           *)

ErasedStore == [i \in 1..EEPROM_SIZE |-> 255]

FloatBytes(v) ==
  << FloatMag(v) % 256, (FloatMag(v) \div 256) % 256,
     (FloatMag(v) \div 65536) % 256,
     (FloatMag(v) \div 16777216) + (IF FloatNeg(v) THEN 128 ELSE 0) >>

BytesFloat(b) ==
  FloatWithSign(b[4] >= 128,
                b[1] + 256 * b[2] + 65536 * b[3] + 16777216 * (b[4] % 128))

(* EEPROM.put(addr, v) on the store mem *)
EEPROM_put(mem, addr, v) ==
  [i \in 1..Len(mem) |->
     IF i - 1 >= addr /\ i - 1 < addr + FLOAT_SIZE
       THEN FloatBytes(v)[i - addr] ELSE mem[i]]

(* EEPROM.get(addr, v) on the store mem *)
EEPROM_get(mem, addr) ==
  BytesFloat([k \in 1..FLOAT_SIZE |-> mem[addr + k]])

(* save_pH_range: both puts, then commit *)
save_pH_range_LowOnly(mem, low, high) == EEPROM_put(mem, PH_LOW_ADDR, low)

save_pH_range(mem, low, high) ==
  EEPROM_put(EEPROM_put(mem, PH_LOW_ADDR, low), PH_HIGH_ADDR, high)

(* load_pH_range: the band read back from the store *)
load_pH_low(mem) == EEPROM_get(mem, PH_LOW_ADDR)
load_pH_high(mem) == EEPROM_get(mem, PH_HIGH_ADDR)

----------------------------------------------------------------------------
(* Serial lines the operator sends (before trim and toLowerCase) *)

Line_setph_ok == <<"s","e","t","p","h"," ","6",".","5",",","7",".","5">>
Line_setph_upper_inverted == <<" ","S","E","T","P","H"," ","8",",","6","\r">>
Line_setph_3dec == <<"s","e","t","p","h"," ","6",".","1","2","6",",","7",".","5">>
Line_setph_tie == <<"s","e","t","p","h"," ","6",".","1","2","5",",","7",".","5">>
Line_setph_ties == <<"s","e","t","p","h"," ","0",".","3","7","5",",","9",".","9","9","5">>
Line_setph_large == <<"s","e","t","p","h"," ","3","0","0","0","0",",","4","0","0","0","0">>
Line_setph_long == <<"s","e","t","p","h"," ","1","9","9","9","9",".","9","9",",",
                     "0",".","9","9","9","9","9","5">>
Line_setph_exp_hex == <<"s","e","t","p","h"," ","6","e","0",",","0","x","1",".","1","p","3">>
Line_setph_signed == <<"s","e","t","p","h"," ","-","0",",","i","n","f">>
Line_setph_nan == <<"s","e","t","p","h"," ","n","a","n",",","-","1",".","5">>
Line_setph_sign_only == <<"s","e","t","p","h"," ","-",",","-",".">>
Line_setph_nonnumeric_low == <<"s","e","t","p","h"," ","a","b","c",",","7",".","5">>
Line_setph_nonnumeric_high == <<"s","e","t","p","h"," ","6",".","5",",","x">>
Line_setph_no_comma == <<"s","e","t","p","h"," ","6",".","5">>
Line_setph_comma_at_5 == <<"s","e","t","p","h",",","7",".","5">>
Line_getph == <<"\f","G","e","t","P","H","","\r">>
Line_save == <<"S","a","v","e","\r">>
Line_load == <<"l","o","a","d">>
Line_unknown == <<"h","e","l","p">>
Line_unknown_typo == <<"s","e","t","h","p"," ","6",".","5",",","7",".","5">>

Lines == {Line_setph_ok, Line_setph_upper_inverted, Line_setph_3dec,
          Line_setph_tie, Line_setph_ties, Line_setph_large, Line_setph_long,
          Line_setph_exp_hex, Line_setph_signed, Line_setph_nan,
          Line_setph_sign_only, Line_setph_nonnumeric_low, Line_setph_nonnumeric_high,
          Line_setph_no_comma, Line_setph_comma_at_5,
          Line_getph, Line_save, Line_load, Line_unknown,
          Line_unknown_typo}

(* The lines sent where the model follows the timing of the serial line *)
TimedLines == {Line_getph, Line_setph_upper_inverted}

Str_setph == <<"s","e","t","p","h">>
Str_getph == <<"g","e","t","p","h">>
Str_save == <<"s","a","v","e">>
Str_load == <<"l","o","a","d">>

(* The line as the handler sees it: trimmed, then lower-cased *)
Normalized(raw) == toLowerCase(trim(raw))

(* comma_index > 5 *)
SetphAccepts(cmd) == indexOf(cmd, ",") > 5

(* low_str and high_str *)
low_str(cmd) == substring(cmd, 5, indexOf(cmd, ","))
high_str(cmd) == substringFrom(cmd, indexOf(cmd, ",") + 1)

(* The entry of a table of values computed once, or the value itself for   *)
(* what the table does not hold                                            *)
Known(table, key, value) == IF key \in DOMAIN table THEN table[key] ELSE value

(* String::toFloat.  The texts the lines of Lines hand to it are converted *)
(* once, here; any other text is converted when it is met.                 *)
toFloat_Known ==
  [s \in UNION { {low_str(Normalized(raw)), high_str(Normalized(raw))} :
                 raw \in {l \in Lines : /\ startsWith(Normalized(l), Str_setph)
                                         /\ SetphAccepts(Normalized(l))} }
     |-> atof(s)]
toFloat(s) == Known(toFloat_Known, s, atof(s))

----------------------------------------------------------------------------
(* Calibration and acquisition *)

(* const float calibration_voltage_8_5 = 2.15, calibration_voltage_6 =     *)
(* 1.75: the floats of the two literals                                    *)
calibration_voltage_8_5 == FloatLiteral(215, 100)
calibration_voltage_6 == FloatLiteral(175, 100)

(* The double literals 3.3 of read_pH and 2.5, 0.8 of                      *)
(* calculate_calibration_voltages                                          *)
ADC_VREF == DLiteral(33, 10)
Divisor_2_5 == DLiteral(25, 10)
Factor_0_8 == DLiteral(8, 10)

(* The two reference voltages of the sketch as the pair (voltage at pH 6,  *)
(* voltage at pH 8.5).  The source gives 1.75 and 2.15 as examples to be   *)
(* replaced by the values measured for the probe; the second pair is a     *)
(* probe measured with the same voltage in both buffers.                   *)
ShippedReference == << calibration_voltage_6, calibration_voltage_8_5 >>
ReferenceVoltages ==
  { ShippedReference, << calibration_voltage_6, calibration_voltage_6 >> }

(* calculate_calibration_voltages:                                         *)
(* v7 = v6 + (v8_5 - v6) / 2.5 and v4 = v6 - 0.8 * (v8_5 - v6), the        *)
(* difference taken in float, the rest in double, the result stored in a   *)
(* float                                                                   *)
calculate_calibration_voltage_7(v6, v8_5) ==
  FloatOfDouble(DAdd(DOfFloat(v6), DDiv(DOfFloat(FSub(v8_5, v6)), Divisor_2_5)))
calculate_calibration_voltage_4(v6, v8_5) ==
  FloatOfDouble(DSub(DOfFloat(v6), DMul(Factor_0_8, DOfFloat(FSub(v8_5, v6)))))

(* The interpolation of read_pH for a voltage and the anchors v7 and v4:   *)
(* pH = 7.0 - (voltage - v7) * (7.0 - 4.0) / (v7 - v4), the two            *)
(* differences of floats taken in float, the rest in double, the result    *)
(* stored in a float.  A division by zero gives an infinity, and 0.0 / 0.0 *)
(* gives NaN.                                                              *)
interpolate_pH(voltage, v7, v4) ==
  FloatOfDouble(
    DSub(DOfInt(7),
         DDiv(DMul(DOfFloat(FSub(voltage, v7)), DSub(DOfInt(7), DOfInt(4))),
              DOfFloat(FSub(v7, v4)))))

(* The body of read_pH for the ADC sample analog_value:                    *)
(* float voltage = analog_value / 1023.0 * 3.3, then the interpolation     *)
compute_pH(analog_value, v7, v4) ==
  interpolate_pH(
    FloatOfDouble(DMul(DDiv(DOfInt(analog_value), DOfInt(ADC_MAX)), ADC_VREF)),
    v7, v4)

(* The anchors calculate_calibration_voltages gives for the reference      *)
(* voltages, as pairs (v7, v4), and the readings of the samples of         *)
(* AnalogSamples with them, computed once                                  *)
calculate_calibration_voltages(ref) ==
  << calculate_calibration_voltage_7(ref[1], ref[2]),
     calculate_calibration_voltage_4(ref[1], ref[2]) >>
Calibrations == { calculate_calibration_voltages(ref) : ref \in ReferenceVoltages }
ShippedCalibration == calculate_calibration_voltages(ShippedReference)
Readings ==
  [k \in {<< analog_value, c >> : analog_value \in AnalogSamples,
                                  c \in Calibrations}
     |-> compute_pH(k[1], k[2][1], k[2][2])]

(* float target_pH_low = 6, target_pH_high = 8.5 *)
DefaultBand == << FloatLiteral(6, 1), FloatLiteral(85, 10) >>

(* The positive finite float next above f, and next below *)
FloatAbove(f) == f + 1
FloatBelow(f) == f - 1

(* Target bands found in EEPROM at boot: erased flash (all bits set, a     *)
(* NaN), the band 6 to 8.5, a band whose limits are two possible readings  *)
(* of a probe with the example calibration, and the band just inside it,   *)
(* each limit the float next to such a reading.                            *)
BootBands ==
  { << ErasedFloat, ErasedFloat >>, DefaultBand }
  \cup With2(Readings, ShippedCalibration, LAMBDA reading, c :
         { << reading[<< 645, c >>], reading[<< 500, c >>] >>,
           << FloatAbove(reading[<< 645, c >>]),
              FloatBelow(reading[<< 500, c >>]) >> })

(* What setup() found: the polls of connect_wifi, the stored band and the  *)
(* reference voltages.  Every band with the example voltages and the short *)
(* wait; the band 6 to 8.5 with every wait and every pair of voltages.     *)
Boots ==
  { << 10, band, ShippedReference >> : band \in BootBands }
  \cup { << waits, DefaultBand, ref >> :
         waits \in WifiWaits, ref \in ReferenceVoltages }

(* Print::print(float).  The floats that recur in the model (the anchors,  *)
(* the readings, the bands of BootBands and of Lines) are converted once,  *)
(* here; any other float is converted when it is met.                      *)
PrintedFloats ==
  { NegZero, ErasedFloat, -2139095040, -1069547520, 0, 1052770304,
    1065353132, 1068960317, 1071644672, 1072986850, 1086185211, 1086185212,
    1086324736, 1086586880, 1086588977, 1087373312, 1088426118, 1089470464,
    1090519040, 1091043328, 1091417516, 1091417517, 1092610949, 1184645115,
    1189765120, 1193033728, 2139095040, 2143289344 }
printFloat_Known == [v \in PrintedFloats |-> dtostrf(v, PrintDecimals)]
printFloat_OneDecimal(v) ==
  IF v \in DOMAIN printFloat_Known
    THEN SubSeq(printFloat_Known[v], 1, Len(printFloat_Known[v]) - 1)
  ELSE dtostrf(v, PrintDecimals - 1)
printFloat(v) == Known(printFloat_Known, v, dtostrf(v, PrintDecimals))

----------------------------------------------------------------------------
VARIABLES
  boot_millis,                \* millis() when setup() returned
  uptime,                     \* time since setup() returned, ms
  pc,                         \* position of loop()
  calibration_voltage_7,
  calibration_voltage_4,
  current_time,               \* loop()'s current_time
  current_pH,                 \* loop()'s current_pH
  last_pH_read_time,
  last_valve_activation_time,
  base_valve_active,
  acid_valve_active,
  base_valve_pin,             \* level driven on D2
  acid_valve_pin,             \* level driven on D3
  target_pH_low,
  target_pH_high,
  eeprom,                     \* the committed EEPROM cells
  out,                        \* what the last step printed to Serial
  sampled_at,                 \* uptime of loop()'s millis()
  read_at,                    \* uptime last_pH_read_time was recorded at
  armed_at,                   \* uptime last_valve_activation_time was recorded at
  base_activatedAt,           \* millis() when the open base valve was armed
  acid_activatedAt,           \* millis() when the open acid valve was armed
  saved_band,                 \* the band save_pH_range stored last since setup()
  passes                      \* calls of loop() since setup()

vars == <<boot_millis, uptime, pc,
          calibration_voltage_7, calibration_voltage_4,
          current_time, current_pH,
          last_pH_read_time, last_valve_activation_time,
          base_valve_active, acid_valve_active, base_valve_pin, acid_valve_pin,
          target_pH_low, target_pH_high, eeprom, out,
          sampled_at, read_at, armed_at, base_activatedAt, acid_activatedAt,
          saved_band, passes>>

calibrationVars == <<calibration_voltage_7, calibration_voltage_4>>
loopVars == <<current_time, current_pH, sampled_at>>
valveVars == <<base_valve_active, acid_valve_active, base_valve_pin,
               acid_valve_pin, last_valve_activation_time, armed_at>>
bandVars == <<target_pH_low, target_pH_high>>
storeVars == <<eeprom, saved_band>>
ownStampVars == <<base_activatedAt, acid_activatedAt>>

(* What millis() returns *)
millis == ULongAdd(boot_millis, uptime)

(* The value of read_at and armed_at while the stamp is still the 0 of its *)
(* initialiser, which stands for the instant the counter started.          *)
Unrecorded == 0 - 1

(* The value of saved_band while save_pH_range has not run since setup() *)
NothingSaved == << >>

(* read_pH for the ADC sample analog_value *)
read_pH(analog_value) ==
  Known(Readings,
        << analog_value, << calibration_voltage_7, calibration_voltage_4 >> >>,
        compute_pH(analog_value, calibration_voltage_7, calibration_voltage_4))

(* What one or more print calls wrote: the kind of the text, the one or    *)
(* two numbers printed in it (<< >> where there is none), and how many     *)
(* times it was written in a row                                           *)
Msg(kind, a, b) == [kind |-> kind, a |-> a, b |-> b, n |-> 1]
Text(kind) == Msg(kind, << >>, << >>)

(* print_pH_range *)
print_pH_range(low, high) == Msg("Target pH Range", printFloat(low), printFloat(high))

(* The dots of connect_wifi, one for every poll *)
Dots(waits) ==
  IF waits = 0 THEN << >> ELSE << [Text(".") EXCEPT !.n = waits] >>

(* millis() when setup() returns, counted from its entry: delay(10), and   *)
(* delay(500) for every poll of connect_wifi                               *)
setup_millis(waits) ==
  LET ULongOfBig(a) ==
        << BigToInt(BigShr(a, ULONG_BITS \div 2)) % HalfRange,
           (BigLimb(a, 1) + LimbBase * BigLimb(a, 2)) % HalfRange >>
  IN ULongOfBig(BigAdd(BigOf(SetupDelay),
                       BigMulSmall(BigOf(waits), WifiPollDelay)))

----------------------------------------------------------------------------
(* State when setup() has returned: outputs driven low, band loaded from   *)
(* EEPROM, calibration computed and printed, band printed, WiFi connected  *)
(* (connect_wifi returns only then; the station may never connect, and     *)
(* then loop() never runs).                                                *)
Init ==
  /\ uptime = 0
  /\ pc = "serial"
  /\ current_time = ULong(0)
  /\ current_pH = 0
  /\ last_pH_read_time = ULong(0)
  /\ last_valve_activation_time = ULong(0)
  /\ base_valve_active = FALSE
  /\ acid_valve_active = FALSE
  /\ base_valve_pin = "LOW"
  /\ acid_valve_pin = "LOW"
  /\ \E boot \in Boots :
       LET waits == boot[1]
           stored == save_pH_range(ErasedStore, boot[2][1], boot[2][2])
       IN
       /\ eeprom = stored
       \* load_pH_range
       /\ target_pH_low = load_pH_low(stored)
       /\ target_pH_high = load_pH_high(stored)
       \* calculate_calibration_voltages
       /\ \E v \in { calculate_calibration_voltages(boot[3]) } :
            /\ calibration_voltage_7 = v[1]
            /\ calibration_voltage_4 = v[2]
            \* connect_wifi, and the lines setup() printed
            /\ boot_millis = setup_millis(waits)
            /\ out = << Text("loaded"),
                        Msg("Calibration Voltage at pH 7", printFloat(v[1]), << >>),
                        Msg("Calibration Voltage at pH 4", printFloat(v[2]), << >>),
                        print_pH_range(load_pH_low(stored), load_pH_high(stored)),
                        Text("Connecting to WiFi") >>
                     \o Dots(waits)
                     \o << Text("WiFi connected"), Text("IP address") >>
  /\ sampled_at = 0
  /\ read_at = Unrecorded
  /\ armed_at = Unrecorded
  /\ base_activatedAt = ULong(0)
  /\ acid_activatedAt = ULong(0)
  /\ saved_band = NothingSaved
  /\ passes = 1

----------------------------------------------------------------------------
(* handle_serial_input *)

(* low_str.toFloat() and high_str.toFloat() *)
SetphLow(cmd) == toFloat(low_str(cmd))
SetphHigh(cmd) == toFloat(high_str(cmd))

(* Serial.available() == 0: nothing is read, nothing is printed, no time   *)
(* passes                                                                  *)
NoSerialInput ==
  /\ out' = << >>
  /\ UNCHANGED <<uptime, bandVars, storeVars>>

(* save_pH_range() on the band (low, high) *)
Save(low, high) ==
  /\ eeprom' = save_pH_range(eeprom, low, high)
  /\ saved_band' = << low, high >>
  /\ out' = << Text("saved"), print_pH_range(low, high) >>

(* The accepted setph: the band is assigned, then save_pH_range *)
SetBand(low, high) ==
  /\ target_pH_low' = low
  /\ target_pH_high' = high
  /\ Save(low, high)

(* The handler on the trimmed, lower-cased line cmd *)
HandleCommand(cmd) ==
  IF startsWith(cmd, Str_setph) THEN
       IF SetphAccepts(cmd) THEN
         SetBand(SetphLow(cmd), SetphHigh(cmd))
       ELSE
         /\ out' = << Text("Invalid setph command") >>
         /\ UNCHANGED <<bandVars, storeVars>>
     ELSE IF cmd = Str_getph THEN
       /\ out' = << print_pH_range(target_pH_low, target_pH_high) >>
       /\ UNCHANGED <<bandVars, storeVars>>
     ELSE IF cmd = Str_save THEN
       /\ Save(target_pH_low, target_pH_high)
       /\ UNCHANGED bandVars
     ELSE IF cmd = Str_load THEN
       /\ target_pH_low' = load_pH_low(eeprom)
       /\ target_pH_high' = load_pH_high(eeprom)
       /\ out' = << Text("loaded"),
                    print_pH_range(load_pH_low(eeprom), load_pH_high(eeprom)) >>
       /\ UNCHANGED storeVars
     ELSE
       /\ out' = << Text("Available commands") >>
       /\ UNCHANGED <<bandVars, storeVars>>

HandleLine(raw) == HandleCommand(Normalized(raw))

(* Serial.available() > 0: readStringUntil returns the line raw after wait *)
(* ms, and the line is handled                                             *)
ReadLine(raw, wait) ==
  /\ uptime' = uptime + wait
  /\ HandleLine(raw)

(* handle_serial_input when the operator sends the lines of lines, read in *)
(* the times of waits                                                      *)
handle_serial_input_of(lines, waits) ==
  /\ pc = "serial"
  /\ pc' = "gate"
  /\ \/ NoSerialInput
     \/ \E raw \in lines, wait \in waits : ReadLine(raw, wait)
  /\ UNCHANGED <<boot_millis, calibrationVars, loopVars, valveVars,
                 ownStampVars, last_pH_read_time, read_at, passes>>

handle_serial_input == handle_serial_input_of(TimedLines, SerialWaits)

----------------------------------------------------------------------------
(* loop(), lines 67-74: sample the clock; when the acquisition is due,     *)
(* stamp it, read the probe and print the reading.                         *)
AcquisitionDue(now) == Elapsed(now, last_pH_read_time, pH_read_interval)

loop_acquire ==
  /\ pc = "gate"
  /\ current_time' = millis
  /\ sampled_at' = uptime
  /\ IF AcquisitionDue(millis) THEN
       /\ last_pH_read_time' = millis
       /\ read_at' = uptime
       /\ \E analog_value \in AnalogSamples :
            /\ current_pH' = read_pH(analog_value)
            /\ out' = << Msg("Current pH", printFloat(current_pH'), << >>) >>
       /\ pc' = "control"
     ELSE
       /\ pc' = "expire"
       /\ out' = << >>
       /\ UNCHANGED <<last_pH_read_time, read_at, current_pH>>
  /\ UNCHANGED <<boot_millis, uptime, calibrationVars, valveVars, ownStampVars,
                 bandVars, storeVars, passes>>

----------------------------------------------------------------------------
(* control_pH(current_pH).  It reads millis() itself, skew ms after loop() *)
(* read it.                                                                *)
(* !base_valve_active && !acid_valve_active *)
Interlock_Off == TRUE
Interlock_BaseOnly == ~base_valve_active
Interlock_AcidOnly == ~acid_valve_active
Interlock_OrExpired ==
  \/ ~base_valve_active /\ ~acid_valve_active
  \/ Elapsed(current_time, last_valve_activation_time, valve_activation_time)
Interlock == ~base_valve_active /\ ~acid_valve_active

(* current_pH < target_pH_low *)
TooLow_DefaultBand(pH) == FLess(pH, DefaultBand[1])
TooLow_ByAnUlp(pH) == FLess(FloatAbove(pH), target_pH_low)
TooLow(pH) == FLess(pH, target_pH_low)

(* current_pH > target_pH_high *)
TooHigh_Inclusive(pH) == ~FLess(pH, target_pH_high) /\ ~IsNaN(pH) /\ ~IsNaN(target_pH_high)
TooHigh_ByAnUlp(pH) == FGreater(FloatBelow(pH), target_pH_high)
TooHigh(pH) == FGreater(pH, target_pH_high)

control_pH ==
  /\ pc = "control"
  /\ pc' = "expire"
  /\ \E skew \in 0..MaxSkew :
       /\ uptime' = uptime + skew
       /\ IF Interlock /\ TooLow(current_pH) THEN
            /\ base_valve_pin' = "HIGH"
            /\ base_valve_active' = TRUE
            /\ last_valve_activation_time' = ULongAdd(boot_millis, uptime + skew)
            /\ armed_at' = uptime + skew
            /\ base_activatedAt' = ULongAdd(boot_millis, uptime + skew)
            /\ out' = << Text("activating base valve") >>
            /\ UNCHANGED <<acid_valve_pin, acid_valve_active, acid_activatedAt>>
          ELSE IF Interlock /\ TooHigh(current_pH) THEN
            /\ acid_valve_pin' = "HIGH"
            /\ acid_valve_active' = TRUE
            /\ last_valve_activation_time' = ULongAdd(boot_millis, uptime + skew)
            /\ armed_at' = uptime + skew
            /\ acid_activatedAt' = ULongAdd(boot_millis, uptime + skew)
            /\ out' = << Text("activating acid valve") >>
            /\ UNCHANGED <<base_valve_pin, base_valve_active, base_activatedAt>>
          ELSE
            /\ out' = << >>
            /\ UNCHANGED <<valveVars, ownStampVars>>
  /\ UNCHANGED <<boot_millis, calibrationVars, loopVars, last_pH_read_time,
                 read_at, bandVars, storeVars, passes>>

----------------------------------------------------------------------------
(* loop(), lines 76-87: non-blocking valve deactivation, against the       *)
(* current_time sampled at line 67.                                        *)
DwellOver_AfterInterval ==
  Elapsed(current_time, last_valve_activation_time,
          valve_activation_time + pH_read_interval)
DwellOver == Elapsed(current_time, last_valve_activation_time, valve_activation_time)

(* The level the expiry check drives on the pin of a valve it deactivates *)
DeactivatedLevel_High == "HIGH"
DeactivatedLevel == "LOW"

loop_expire ==
  /\ pc = "expire"
  /\ pc' = "delay"
  /\ IF base_valve_active /\ DwellOver
       THEN /\ base_valve_pin' = DeactivatedLevel
            /\ base_valve_active' = FALSE
            /\ base_activatedAt' = ULong(0)
       ELSE UNCHANGED <<base_valve_pin, base_valve_active, base_activatedAt>>
  /\ IF acid_valve_active /\ DwellOver
       THEN /\ acid_valve_pin' = DeactivatedLevel
            /\ acid_valve_active' = FALSE
            /\ acid_activatedAt' = ULong(0)
       ELSE UNCHANGED <<acid_valve_pin, acid_valve_active, acid_activatedAt>>
  /\ out' = (IF base_valve_active /\ DwellOver
                  THEN << Text("Base valve deactivated") >> ELSE << >>)
            \o (IF acid_valve_active /\ DwellOver
                  THEN << Text("Acid valve deactivated") >> ELSE << >>)
  /\ current_pH' = 0                      \* the reading is not kept
  /\ UNCHANGED <<boot_millis, uptime, calibrationVars, current_time,
                 sampled_at, last_pH_read_time, read_at,
                 last_valve_activation_time, armed_at, bandVars, storeVars,
                 passes>>

----------------------------------------------------------------------------
(* loop(), line 89: delay(10); loop() returns and is called again.         *)
(*                                                                         *)
(* The model follows a run for `budget' passes, and further while a valve  *)
(* is open.  Every pass takes LoopDelay at the least, so the dwell of a    *)
(* valve is over after DwellPasses more passes and the expiry check of one *)
(* of them closes it: the model stops on an open valve only when the       *)
(* program has failed to close it for that long.                           *)
DwellPasses == (valve_activation_time \div LoopDelay) + 1

FollowedFor(budget, grace) ==
  \/ passes < budget
  \/ /\ base_valve_active \/ acid_valve_active
     /\ passes < budget + grace

loop_delay_for(budget, grace) ==
  /\ pc = "delay"
  /\ pc' = "serial"
  /\ FollowedFor(budget, grace)
  /\ passes' = passes + 1
  /\ uptime' = uptime + LoopDelay
  /\ current_time' = ULong(0) /\ sampled_at' = 0   \* the local goes out of scope
  /\ out' = << >>
  /\ UNCHANGED <<boot_millis, calibrationVars, ownStampVars, current_pH,
                 last_pH_read_time, read_at,
                 valveVars, bandVars, storeVars>>

loop_delay == loop_delay_for(MaxPasses, 0)

Next ==
  \/ handle_serial_input
  \/ loop_acquire
  \/ control_pH
  \/ loop_expire
  \/ loop_delay

Spec == Init /\ [][Next]_vars

----------------------------------------------------------------------------
(* The program followed until its valves are closed.  loop() is called     *)
(* again whenever it returns, and no step of it blocks for ever: every     *)
(* step is taken.                                                          *)
loop_delay_closing == loop_delay_for(FairPasses, DwellPasses)

FairNext ==
  \/ handle_serial_input
  \/ loop_acquire
  \/ control_pH
  \/ loop_expire
  \/ loop_delay_closing

FairSpec == Init /\ [][FairNext]_vars /\ WF_vars(FairNext)

----------------------------------------------------------------------------
(* The program in a fast loop: no pass is longer than FastPassLimit *)
handle_serial_input_fast == handle_serial_input_of(TimedLines, FastSerialWaits)

loop_delay_fast == loop_delay_for(FastPasses, 0)

FastNext ==
  \/ handle_serial_input_fast
  \/ loop_acquire
  \/ control_pH
  \/ loop_expire
  \/ loop_delay_fast

FastSpec == Init /\ [][FastNext]_vars

----------------------------------------------------------------------------
(* The program under every line of Lines, each in the receive buffer as a  *)
(* whole or without a newline.                                             *)
CommandWaits == {0, SerialTimeout}

handle_serial_input_any == handle_serial_input_of(Lines, CommandWaits)

loop_delay_short == loop_delay_for(CommandPasses, 0)

CommandNext ==
  \/ handle_serial_input_any
  \/ loop_acquire
  \/ control_pH
  \/ loop_expire
  \/ loop_delay_short

CommandSpec == Init /\ [][CommandNext]_vars
----------------------------------------------------------------------------
(* Steps of the loop, as seen from outside *)

ControlStep == pc = "control" /\ pc' = "expire"
ExpiryStep == pc = "expire" /\ pc' = "delay"
SerialStep == pc = "serial" /\ pc' = "gate"

BothIdle == base_valve_active = FALSE /\ acid_valve_active = FALSE

(* The pass in progress ran control_pH: its acquisition stamp is this      *)
(* pass's clock sample.                                                    *)
AcquiredThisPass == pc \in {"control", "expire"} /\ read_at = sampled_at

(* The order of the numbers two floats stand for, taken from their values  *)
(* as dyadic numbers and not from their bit patterns: a NaN is neither     *)
(* less than nor at most anything, minus zero is zero, an infinity is      *)
(* beyond every number.                                                    *)
NegInf == FloatWithSign(TRUE, PosInf)
NumberLess(a, b) ==
  /\ ~IsNaN(a) /\ ~IsNaN(b)
  /\ IF IsInf(a) \/ IsInf(b)
       THEN (a = NegInf /\ b # NegInf) \/ (b = PosInf /\ a # PosInf)
     ELSE DyCmp(DyOfFloat(a), DyOfFloat(b)) < 0
NumberAtMost(a, b) == ~IsNaN(a) /\ ~IsNaN(b) /\ ~NumberLess(b, a)

----------------------------------------------------------------------------
(* C1: in every reachable state base_valve_active and acid_valve_active    *)
(* are never both true.                                                    *)
C1_MutualExclusion == ~(base_valve_active /\ acid_valve_active)

(* control_pH is about to run with the base valve open and a reading above *)
(* the band: only the interlock keeps the acid valve shut.                 *)
C1_Witness ==
  /\ pc = "control"
  /\ base_valve_active
  /\ FGreater(current_pH, target_pH_high)

----------------------------------------------------------------------------
(* C3: for every reading r and every band, when control_pH(r) is called   *)
(* with both valves idle and r < target_pH_low, afterwards the base valve  *)
(* is active and the acid valve is not.                                    *)
C3_LowArmsBase ==
  [][ ( /\ ControlStep
        /\ BothIdle
        /\ NumberLess(current_pH, target_pH_low) )
      => (base_valve_active' /\ ~acid_valve_active') ]_vars

(* control_pH has just armed the base valve for a reading that is the      *)
(* float next below the lower limit of the band                            *)
C3_Witness ==
  /\ pc = "expire"
  /\ AcquiredThisPass
  /\ FloatAbove(current_pH) = target_pH_low
  /\ out = << Text("activating base valve") >>
  /\ base_valve_active /\ ~acid_valve_active

----------------------------------------------------------------------------
(* C4 as stated: when control_pH(r) is called with both valves idle and    *)
(* r > target_pH_high, afterwards the acid valve is active and the base    *)
(* valve is not, also for a band set with low > high.                      *)
C4_HighArmsAcid_AnyBand ==
  [][ ( /\ ControlStep
        /\ BothIdle
        /\ NumberLess(target_pH_high, current_pH) )
      => (acid_valve_active' /\ ~base_valve_active') ]_vars

(* C4 amended: when control_pH(r) is called with both valves idle,         *)
(* r > target_pH_high and r is not below target_pH_low (always so when     *)
(* low <= high), afterwards the acid valve is active and the base valve is *)
(* not.                                                                    *)
C4_HighArmsAcid ==
  [][ ( /\ ControlStep
        /\ BothIdle
        /\ NumberLess(target_pH_high, current_pH)
        /\ ~NumberLess(current_pH, target_pH_low) )
      => (acid_valve_active' /\ ~base_valve_active') ]_vars

(* control_pH has just armed the acid valve for a reading that is the      *)
(* float next above the upper limit of the band                            *)
C4_Witness ==
  /\ pc = "expire"
  /\ AcquiredThisPass
  /\ FloatBelow(current_pH) = target_pH_high
  /\ out = << Text("activating acid valve") >>
  /\ acid_valve_active /\ ~base_valve_active

----------------------------------------------------------------------------
(* C5: for a reading r with target_pH_low <= r <= target_pH_high, both     *)
(* bounds inclusive, control_pH(r) arms neither valve and leaves both      *)
(* flags, both outputs and last_valve_activation_time unchanged.           *)
C5_InBandNoAction ==
  [][ ( /\ ControlStep
        /\ NumberAtMost(target_pH_low, current_pH)
        /\ NumberAtMost(current_pH, target_pH_high) )
      => ( /\ UNCHANGED <<base_valve_active, acid_valve_active,
                          base_valve_pin, acid_valve_pin,
                          last_valve_activation_time>>
           /\ out' = << >> ) ]_vars

(* control_pH has just run, valves idle, on a reading equal to the lower   *)
(* limit of the band; another reading of the probe equals the upper limit  *)
C5_Witness ==
  /\ pc = "expire"
  /\ AcquiredThisPass
  /\ current_pH = target_pH_low
  /\ target_pH_high \in { read_pH(analog_value) : analog_value \in AnalogSamples }
  /\ NumberLess(current_pH, target_pH_high)
  /\ BothIdle

----------------------------------------------------------------------------
(* C6: called while either valve is active, control_pH is a no-op for      *)
(* every reading: no flag changes, no output is driven and                 *)
(* last_valve_activation_time is not reset.                                *)
C6_InterlockNoOp ==
  [][ ( /\ ControlStep
        /\ base_valve_active \/ acid_valve_active )
      => ( /\ UNCHANGED <<base_valve_active, acid_valve_active,
                          base_valve_pin, acid_valve_pin,
                          last_valve_activation_time, armed_at>>
           /\ out' = << >> ) ]_vars

(* control_pH has just run on an out-of-band reading while a valve armed   *)
(* in an earlier pass was still open                                       *)
C6_Witness ==
  /\ pc = "expire"
  /\ AcquiredThisPass
  /\ base_valve_active \/ acid_valve_active
  /\ armed_at < sampled_at
  /\ FLess(current_pH, target_pH_low)

----------------------------------------------------------------------------
(* C2: a valve armed by control_pH at clock value t stays active through   *)
(* every expiry check whose clock value is earlier than t + 2000 and is    *)
(* deactivated (flag cleared, output low) at the first expiry check whose  *)
(* clock value is at or after t + 2000, the check of the arming pass, made *)
(* against the clock value loop() sampled before control_pH, included.     *)
(* Clock values are compared as true times.                                *)
C2_DwellExact ==
  [][ ExpiryStep =>
        /\ base_valve_active =>
             IF sampled_at < armed_at + valve_activation_time
               THEN base_valve_active' /\ base_valve_pin' = "HIGH"
               ELSE ~base_valve_active' /\ base_valve_pin' = "LOW"
        /\ acid_valve_active =>
             IF sampled_at < armed_at + valve_activation_time
               THEN acid_valve_active' /\ acid_valve_pin' = "HIGH"
               ELSE ~acid_valve_active' /\ acid_valve_pin' = "LOW" ]_vars

----------------------------------------------------------------------------
(* A pass ends with a valve open only when its clock sample is less than   *)
(* valve_activation_time after the valve was armed, and then loop() is     *)
(* followed into another pass.                                             *)
OpenOnlyWithinDwell ==
  (pc = "delay" /\ ~BothIdle)
    => /\ sampled_at < armed_at + valve_activation_time
       /\ FollowedFor(FairPasses, DwellPasses)

(* C7: every valve that becomes active is eventually deactivated, as long  *)
(* as loop() keeps being executed and the clock keeps advancing, whatever  *)
(* readings and commands arrive: an open valve is closed later on, by the  *)
(* first expiry check whose clock sample is valve_activation_time or more  *)
(* after the arming.                                                       *)
C7_EventuallyClosed ==
  /\ base_valve_active ~> ~base_valve_active
  /\ acid_valve_active ~> ~acid_valve_active
  /\ []OpenOnlyWithinDwell

(* A valve armed in the last pass with serial input has just been closed   *)
(* by the expiry check, valve_activation_time / LoopDelay passes of        *)
(* delay(10) later                                                         *)
C7_Witness ==
  /\ pc = "delay"
  /\ BothIdle
  /\ armed_at >= 0 /\ armed_at < sampled_at
  /\ passes >= FairPasses + (valve_activation_time \div LoopDelay)
  /\ \/ out = << Text("Base valve deactivated") >>
     \/ out = << Text("Acid valve deactivated") >>

----------------------------------------------------------------------------
(* The counter has wrapped by the uptime t *)
WrappedBy(t) ==
  boot_millis[1] + ((boot_millis[2] + t) \div HalfRange) >= HalfRange

(* The true time from the instant a stamp stands for to the uptime t: a    *)
(* stamp recorded at the uptime at, or the initialiser's 0, which stands   *)
(* for the instant the counter started.  Whether that time is at least 0   *)
(* and less than the counter's range 2^32, and whether it is at least n    *)
(* (0 <= n < 2^16).                                                        *)
TrueElapsedInRange(t, at) ==
  IF at = Unrecorded THEN ~WrappedBy(t) ELSE t >= at
TrueElapsedGeq(t, at, n) ==
  IF at = Unrecorded THEN boot_millis[1] > 0 \/ boot_millis[2] + t >= n
  ELSE t - at >= n

(* C8: on the wrapping counter the acquisition gate and the expiry check   *)
(* give the result of the same comparison on the true elapsed time,        *)
(* whenever that time is at least 0 and less than the counter's range,     *)
(* also when the counter wrapped since the timestamp was recorded.         *)
C8_WrapSafe ==
  /\ ( pc = "gate" /\ TrueElapsedInRange(uptime, read_at) )
       => ( AcquisitionDue(millis)
              <=> TrueElapsedGeq(uptime, read_at, pH_read_interval) )
  /\ ( pc = "expire" /\ TrueElapsedInRange(sampled_at, armed_at) )
       => ( DwellOver
              <=> TrueElapsedGeq(sampled_at, armed_at, valve_activation_time) )

(* An expiry check on an open valve, made after the counter wrapped past   *)
(* both recorded timestamps                                                *)
C8_Witness ==
  /\ pc = "expire"
  /\ base_valve_active \/ acid_valve_active
  /\ armed_at >= 0 /\ sampled_at >= armed_at
  /\ ULongLess(current_time, last_valve_activation_time)
  /\ read_at >= 0 /\ sampled_at >= read_at
  /\ ULongLess(current_time, last_pH_read_time)

----------------------------------------------------------------------------
(* The setph lines of Lines that are malformed: a field that is no number, *)
(* no comma, a comma at index 5.                                           *)
MalformedSetphLines ==
  {Line_setph_nonnumeric_low, Line_setph_nonnumeric_high,
   Line_setph_no_comma, Line_setph_comma_at_5}

(* The floats of the bands of some lines *)
pH_6 == FloatLiteral(6, 1)
pH_6_5 == FloatLiteral(65, 10)
pH_7_5 == FloatLiteral(75, 10)
pH_8 == FloatLiteral(8, 1)

(* The well-formed setph lines of Lines that carry decimal numbers: the    *)
(* numbers L and H of the line, as fractions, and the digits the program   *)
(* prints for the band it holds after the line.                            *)
Setph(raw, low, high, shown_low, shown_high) ==
  [raw |-> raw, low |-> low, high |-> high,
   shown |-> << shown_low, shown_high >>]
WellFormedSetphLines ==
  { Setph(Line_setph_ok, << 65, 10 >>, << 75, 10 >>,
          << "6", ".", "5", "0" >>, << "7", ".", "5", "0" >>),
    Setph(Line_setph_upper_inverted, << 8, 1 >>, << 6, 1 >>,
          << "8", ".", "0", "0" >>, << "6", ".", "0", "0" >>),
    Setph(Line_setph_3dec, << 6126, 1000 >>, << 75, 10 >>,
          << "6", ".", "1", "3" >>, << "7", ".", "5", "0" >>),
    Setph(Line_setph_tie, << 6125, 1000 >>, << 75, 10 >>,
          << "6", ".", "1", "2" >>, << "7", ".", "5", "0" >>),
    Setph(Line_setph_ties, << 375, 1000 >>, << 9995, 1000 >>,
          << "0", ".", "3", "7" >>, << "9", ".", "9", "9" >>),
    Setph(Line_setph_large, << 30000, 1 >>, << 40000, 1 >>,
          << "3", "0", "0", "0", "0", ".", "0", "0" >>,
          << "4", "0", "0", "0", "0", ".", "0", "0" >>),
    Setph(Line_setph_long, << 1999999, 100 >>, << 999995, 1000000 >>,
          << "1", "9", "9", "9", "9", ".", "9", "9" >>,
          << "1", ".", "0", "0" >>) }

(* The float the program holds for the number q = n/d of a line: the       *)
(* double nearest to q, narrowed to float                                  *)
HeldFor(q) == FloatLiteral(q[1], q[2])

(* Nothing of the controller changes but the Serial output and the clock *)
ProgramStateUnchanged ==
  UNCHANGED <<bandVars, storeVars, valveVars, ownStampVars, last_pH_read_time,
              read_at, boot_millis, calibrationVars, loopVars, passes>>

(* C9: for every malformed setph line handle_serial_input reports the      *)
(* usage error and mutates nothing: the in-memory band and the stored      *)
(* fields stay as they were.                                               *)
C9_MalformedSetphRejected ==
  [][ \A raw \in MalformedSetphLines :
        (SerialStep /\ HandleLine(raw))
          => ( /\ out' = << Text("Invalid setph command") >>
               /\ UNCHANGED <<target_pH_low, target_pH_high, eeprom>> ) ]_vars

----------------------------------------------------------------------------
(* A step that handles a well-formed setph line sets the band to the       *)
(* floats of the numbers of the line.                                      *)
SetphSetsBand ==
  \A c \in WellFormedSetphLines :
    (SerialStep /\ HandleLine(c.raw))
      => (target_pH_low' = HeldFor(c.low) /\ target_pH_high' = HeldFor(c.high))

(* The setph lines of Lines whose numbers are written otherwise: with an   *)
(* exponent and in hexadecimal, minus zero and infinity, NaN and a         *)
(* negative number, a minus sign with no number after it (which is +0, not *)
(* -0); and the floats the program holds for them.                         *)
SpecialSetphLines ==
  { [raw |-> Line_setph_exp_hex, low |-> pH_6, high |-> FloatLiteral(85, 10)],
    [raw |-> Line_setph_signed, low |-> NegZero, high |-> PosInf],
    [raw |-> Line_setph_nan, low |-> NaN,
     high |-> FloatWithSign(TRUE, FloatLiteral(15, 10))],
    [raw |-> Line_setph_sign_only, low |-> 0, high |-> 0] }

SetphSetsSpecialBand ==
  \A c \in SpecialSetphLines :
    (SerialStep /\ HandleLine(c.raw))
      => (target_pH_low' = c.low /\ target_pH_high' = c.high)

(* The band is the one the line c sets *)
BandOf(c) ==
  target_pH_low = HeldFor(c.low) /\ target_pH_high = HeldFor(c.high)

(* A step of handle_serial_input on a getph line *)
GetphStep == SerialStep /\ HandleLine(Line_getph)

(* A printed number t, digits with a point, is the whole number of its     *)
(* digits over a power of ten.  The difference between the finite float f  *)
(* and the number t denotes, times 200 * 10^d for the d decimals of t      *)
PrintedDecimals(t) == Len(t) - indexOf(t, ".") - 1
PrintedWhole(t) ==
  BigOfDigits([k \in 1..Len(SelectSeq(t, IsDigit)) |->
                 DigitVal(SelectSeq(t, IsDigit)[k])],
              Len(SelectSeq(t, IsDigit)), 10)
PrintedError(f, t) ==
  DySum(DyProduct(DyOfFloat(f),
                  Dyadic(FALSE, BigMulSmall(BigPow10(PrintedDecimals(t)), 200), 0)),
        Dyadic(CharAt(t, 1) # "-", BigMulSmall(PrintedWhole(t), 200), 0))

(* t denotes the float f exactly; t has two decimals and denotes a number  *)
(* within 0.005 of f; t denotes the number q = n/d of a line               *)
PrintedExactly(f, t) == DyIsZero(PrintedError(f, t))
PrintedToTwoDecimals(f, t) ==
  /\ PrintedDecimals(t) = PrintDecimals
  /\ DyCmp(Dyadic(FALSE, PrintedError(f, t).m, PrintedError(f, t).e),
           Dyadic(FALSE, BigPow10(PrintedDecimals(t)), 0)) <= 0
PrintedIs(q, t) ==
  /\ CharAt(t, 1) # "-"
  /\ BigCmp(BigMulSmall(BigPow10(PrintedDecimals(t)), q[1]),
            BigMulSmall(PrintedWhole(t), q[2])) = 0

(* The finite float f is the number q = n/d of a line *)
HeldExactly(q, f) ==
  /\ ~IsNaN(f) /\ ~IsInf(f)
  /\ DyCmp(DyProduct(DyOfFloat(f), Dyadic(FALSE, BigOf(q[2]), 0)),
           Dyadic(FALSE, BigOf(q[1]), 0)) = 0

(* The number q = n/d is written with no more than two decimals *)
HasTwoDecimals(q) == ((10 ^ PrintDecimals) * q[1]) % q[2] = 0

(* C10 as stated: after a well-formed setph L,H the in-memory band is      *)
(* exactly (L, H), and a following getph reports exactly (L, H) and        *)
(* changes no state.                                                       *)
C10_GetphExact ==
  [][ \A c \in WellFormedSetphLines :
        /\ (SerialStep /\ HandleLine(c.raw))
             => ( /\ HeldExactly(c.low, target_pH_low')
                  /\ HeldExactly(c.high, target_pH_high') )
        /\ (GetphStep /\ BandOf(c))
             => ( /\ Len(out') = 1
                  /\ out'[1].kind = "Target pH Range"
                  /\ PrintedIs(c.low, out'[1].a)
                  /\ PrintedIs(c.high, out'[1].b)
                  /\ ProgramStateUnchanged ) ]_vars

(* C10 amended: after a well-formed setph L,H the in-memory band is the    *)
(* pair of floats the program holds for L and H, and a following getph     *)
(* reports each bound with two decimals, as the bound plus 0.005 cut after *)
(* the second decimal: a number within 0.005 of the bound, L (H) itself    *)
(* when that is written with no more than two decimals, and 6.13 for       *)
(* 6.126, 6.12 for 6.125, 0.37 for 0.375, 9.99 for 9.995, 1.00 for         *)
(* 0.999995.  getph changes no state.                                      *)
C10_GetphTwoDecimals ==
  [][ /\ SetphSetsBand
      /\ \A c \in WellFormedSetphLines :
           (GetphStep /\ BandOf(c))
             => ( /\ Len(out') = 1
                  /\ out'[1].kind = "Target pH Range"
                  /\ out'[1].a = c.shown[1]
                  /\ out'[1].b = c.shown[2]
                  /\ PrintedToTwoDecimals(target_pH_low, out'[1].a)
                  /\ PrintedToTwoDecimals(target_pH_high, out'[1].b)
                  /\ HasTwoDecimals(c.low) => PrintedIs(c.low, out'[1].a)
                  /\ HasTwoDecimals(c.high) => PrintedIs(c.high, out'[1].b)
                  /\ ProgramStateUnchanged ) ]_vars

(* getph has just reported the band that setph 6.125,7.5 set, in a later   *)
(* pass than the setph                                                     *)
C10_Witness ==
  /\ pc = "gate"
  /\ passes > 1
  /\ target_pH_low = HeldFor(<< 6125, 1000 >>) /\ target_pH_high = pH_7_5
  /\ saved_band = << target_pH_low, target_pH_high >>
  /\ out = << Msg("Target pH Range", << "6", ".", "1", "2" >>,
                                     << "7", ".", "5", "0" >>) >>

----------------------------------------------------------------------------
(* The stored fields hold the in-memory band *)
StoredIsBand ==
  /\ load_pH_low(eeprom) = target_pH_low
  /\ load_pH_high(eeprom) = target_pH_high

(* A step of handle_serial_input that called save_pH_range *)
SaveStep == SerialStep /\ Len(out') = 2 /\ out'[1] = Text("saved")

(* A step of handle_serial_input that called load_pH_range *)
LoadStep == SerialStep /\ Len(out') = 2 /\ out'[1] = Text("loaded")

(* C11: round trip.  load_pH_range after save_pH_range, with no other      *)
(* write to the store in between, leaves the in-memory band equal to the   *)
(* band that was saved, whatever band that was: a load that follows a save *)
(* of the run yields the band of the last save, a save stores the band in  *)
(* memory, and the store is written by save_pH_range only.  Equality is of *)
(* the value stored: a NaN bound comes back as the same NaN, minus zero    *)
(* as minus zero.                                                          *)
C11_SaveLoadRoundTrip ==
  [][ /\ (LoadStep /\ saved_band # NothingSaved)
           => << target_pH_low', target_pH_high' >> = saved_band
      /\ SaveStep
           => saved_band' = << target_pH_low', target_pH_high' >>
      /\ (eeprom' # eeprom \/ saved_band' # saved_band) => SaveStep ]_vars

(* load has just brought back the band that setph nan,-1.5 saved: a NaN    *)
(* and a negative number                                                   *)
C11_Witness ==
  /\ pc = "gate"
  /\ Len(out) = 2 /\ out[1] = Text("loaded")
  /\ saved_band # NothingSaved
  /\ IsNaN(target_pH_low)
  /\ target_pH_high = FloatWithSign(TRUE, FloatLiteral(15, 10))

----------------------------------------------------------------------------
(* A step of handle_serial_input on a line that starts with setph *)
SetphStep ==
  /\ SerialStep
  /\ \E raw \in Lines :
       startsWith(Normalized(raw), Str_setph) /\ HandleLine(raw)

(* C12: after the load in setup() the in-memory band changes value only in *)
(* a step that handles a setph command (not in load, save or any step of   *)
(* the control loop), and after every step that changes it the stored      *)
(* fields hold the new band.                                               *)
C12_BandChangesOnlyBySetph ==
  [][ (target_pH_low' # target_pH_low \/ target_pH_high' # target_pH_high)
        => (SetphStep /\ StoredIsBand') ]_vars

(* setph 8,6 has just replaced another band, and the store holds 8 and 6 *)
C12_Witness ==
  /\ pc = "gate"
  /\ out = << Text("saved"), print_pH_range(pH_8, pH_6) >>
  /\ target_pH_low = pH_8 /\ target_pH_high = pH_6
  /\ EEPROM_get(eeprom, PH_LOW_ADDR) = pH_8
  /\ EEPROM_get(eeprom, PH_HIGH_ADDR) = pH_6

----------------------------------------------------------------------------
(* C13: when a command that changes the band is handled in a pass whose    *)
(* acquisition gate fires, control_pH of that pass compares the reading    *)
(* against the band the command set: the command's step sets the band, the *)
(* steps from the clock sample to the end of control_pH leave it as it is, *)
(* and the arming decision is the comparison against that band.            *)
C13_ControlUsesNewBand ==
  [][ /\ SetphSetsBand
      /\ SetphSetsSpecialBand
      /\ (pc \in {"gate", "control"}) => UNCHANGED <<bandVars, eeprom>>
      /\ (ControlStep /\ BothIdle) =>
           /\ base_valve_active' = NumberLess(current_pH, target_pH_low')
           /\ acid_valve_active' = ( /\ ~NumberLess(current_pH, target_pH_low')
                                     /\ NumberLess(target_pH_high', current_pH) )
    ]_vars

(* First pass after setup(): the band 8, 6 was set by a setph of this      *)
(* pass, the gate fired, the reading 7.002 is in the band 6 - 8.5 that     *)
(* setup() loaded and below the new low bound 8, and control_pH has armed  *)
(* the base valve.                                                         *)
C13_Witness ==
  /\ pc = "expire"
  /\ passes = 1
  /\ AcquiredThisPass
  /\ target_pH_low = pH_8 /\ target_pH_high = pH_6
  /\ current_pH = read_pH(592)
  /\ NumberAtMost(DefaultBand[1], current_pH)
  /\ NumberAtMost(current_pH, DefaultBand[2])
  /\ base_valve_active /\ ~acid_valve_active

----------------------------------------------------------------------------
(* The calibration is degenerate: the anchors coincide *)
CalibrationDegenerate == calibration_voltage_7 = calibration_voltage_4

(* C14: when the calibration is degenerate the program signals             *)
(* CalibrationDegenerate, and no pH computed with a zero denominator is    *)
(* passed to control_pH: no acquisition prints or hands over an infinite   *)
(* or NaN reading.                                                         *)
C14_DegenerateCalibrationSignalled ==
  CalibrationDegenerate =>
    ~( /\ pc = "control"
       /\ IsInf(current_pH) \/ IsNaN(current_pH) )

----------------------------------------------------------------------------
(* The pH read_pH computes for a sensed voltage *)
pH_at_voltage(voltage) ==
  interpolate_pH(voltage, calibration_voltage_7, calibration_voltage_4)

(* C15: read_pH maps each calibration anchor to its nominal pH: a sensed   *)
(* voltage of calibration_voltage_7 gives pH 7, one of                     *)
(* calibration_voltage_4 gives pH 4, and the reference voltages for pH 6   *)
(* and pH 8.5 give 6 and 8.5.                                              *)
C15_AnchorsMapToNominal ==
  ~CalibrationDegenerate =>
    /\ pH_at_voltage(calibration_voltage_7) = FloatLiteral(7, 1)
    /\ pH_at_voltage(calibration_voltage_4) = FloatLiteral(4, 1)
    /\ pH_at_voltage(calibration_voltage_6) = DefaultBand[1]
    /\ pH_at_voltage(calibration_voltage_8_5) = DefaultBand[2]

----------------------------------------------------------------------------
(* The acquisition gate fires: the step from the clock sample to control_pH *)
GateFires == pc = "gate" /\ pc' = "control"

(* C16: in a pass control_pH runs before the expiry check.  When the gate  *)
(* fires in a pass that finds a valve active whose dwell has elapsed,      *)
(* control_pH arms nothing and changes no valve state, the expiry check of *)
(* the same pass then closes the valve, and the gate does not fire again   *)
(* before pH_read_interval has passed since this acquisition.              *)
C16_ControlBeforeExpiry ==
  [][ /\ (ControlStep /\ ~BothIdle /\ DwellOver)
           => (UNCHANGED valveVars /\ out' = << >>)
      /\ (ExpiryStep /\ AcquiredThisPass /\ ~BothIdle /\ DwellOver)
           => ( /\ BothIdle'
                /\ base_valve_pin' = "LOW" /\ acid_valve_pin' = "LOW" )
      /\ GateFires => TrueElapsedGeq(uptime, read_at, pH_read_interval)
    ]_vars

(* The gate fired in this pass, at least valve_activation_time after the   *)
(* base valve was armed, and the expiry check of the pass has closed it.   *)
C16_Witness ==
  /\ pc = "delay"
  /\ read_at = sampled_at
  /\ armed_at + valve_activation_time <= sampled_at
  /\ out = << Text("Base valve deactivated") >>
  /\ BothIdle

----------------------------------------------------------------------------
(* The expiry test of a valve against its own activation stamp *)
OwnDwellOver(activatedAt) ==
  Elapsed(current_time, activatedAt, valve_activation_time)

(* C17: the one shared last_valve_activation_time behaves as a separate    *)
(* activation stamp per valve would: while a valve is active its own stamp *)
(* is the shared one, so every expiry check decides for each valve as the  *)
(* check against the valve's own stamp does, and closes the same valves in *)
(* the same pass.                                                          *)
C17_SharedStampAsPerValve ==
  [][ /\ base_valve_active' => base_activatedAt' = last_valve_activation_time'
      /\ acid_valve_active' => acid_activatedAt' = last_valve_activation_time'
      /\ ExpiryStep =>
           /\ base_valve_active' =
                (base_valve_active /\ ~OwnDwellOver(base_activatedAt))
           /\ acid_valve_active' =
                (acid_valve_active /\ ~OwnDwellOver(acid_activatedAt))
    ]_vars

(* The acid valve is open, armed in a later acquisition than the first of  *)
(* the run, its stamp is in the shared variable, and an expiry check has   *)
(* left it open.                                                           *)
C17_Witness ==
  /\ pc = "delay"
  /\ acid_valve_active /\ ~base_valve_active
  /\ acid_activatedAt = last_valve_activation_time
  /\ armed_at >= pH_read_interval
  /\ read_at = armed_at

----------------------------------------------------------------------------
(* C18: between loop passes, and when setup() has returned, the level of   *)
(* each valve pin agrees with the valve's flag (HIGH exactly when active); *)
(* when setup() has returned both pins are LOW and both flags false.       *)
C18_PinsFollowFlags ==
  /\ pc = "serial" =>
       /\ (base_valve_pin = "HIGH") = base_valve_active
       /\ (acid_valve_pin = "HIGH") = acid_valve_active
       /\ base_valve_pin \in {"HIGH", "LOW"}
       /\ acid_valve_pin \in {"HIGH", "LOW"}
  /\ (pc = "serial" /\ uptime = 0) =>
       /\ base_valve_pin = "LOW" /\ acid_valve_pin = "LOW"
       /\ BothIdle

(* Between two passes with the base valve open: its pin HIGH and its flag  *)
(* true, the acid valve's pin LOW and its flag false.                      *)
C18_Witness ==
  /\ pc = "serial"
  /\ uptime > 0
  /\ base_valve_pin = "HIGH" /\ base_valve_active
  /\ acid_valve_pin = "LOW" /\ ~acid_valve_active

----------------------------------------------------------------------------
(* Lines that are getph or no command at all *)
ReadOnlyLines == { Line_getph, Line_unknown, Line_unknown_typo }

(* C19: no serial command changes valve or timer state: whatever the line, *)
(* handle_serial_input leaves the valve flags, the pins,                   *)
(* last_valve_activation_time and last_pH_read_time as they were; getph    *)
(* and unrecognized lines leave the band and the stored fields unchanged   *)
(* as well.                                                                *)
C19_CommandsLeaveValvesAndTimers ==
  [][ /\ SerialStep =>
           UNCHANGED << base_valve_active, acid_valve_active,
                        base_valve_pin, acid_valve_pin,
                        last_valve_activation_time, last_pH_read_time >>
      /\ \A raw \in ReadOnlyLines :
           (SerialStep /\ HandleLine(raw))
             => UNCHANGED << target_pH_low, target_pH_high, eeprom >>
    ]_vars

(* An unrecognized line has just been answered while the acid valve is     *)
(* open and the band is 6.5 - 7.5.                                         *)
C19_Witness ==
  /\ pc = "gate"
  /\ out = << Text("Available commands") >>
  /\ acid_valve_active /\ acid_valve_pin = "HIGH"
  /\ target_pH_low = pH_6_5 /\ target_pH_high = pH_7_5

----------------------------------------------------------------------------
(* C20: with consecutive passes at most 1000 ms apart, in every pass in    *)
(* which the gate fires both valve flags are false when control_pH is      *)
(* called, and an out-of-band reading always opens a valve: the interlock  *)
(* never suppresses a dosing decision.                                     *)
C20_FastLoopIdleAtGate ==
  [][ ControlStep =>
        /\ BothIdle
        /\ ( \/ NumberLess(current_pH, target_pH_low)
             \/ NumberLess(target_pH_high, current_pH) ) => ~BothIdle' ]_vars

(* control_pH is about to run on a reading above the band, in a later pass *)
(* than the first, a full acquisition interval after the gate fired last   *)
(* and a valve was armed; that valve has been closed since.                *)
C20_Witness ==
  /\ pc = "control"
  /\ passes > 1
  /\ BothIdle
  /\ NumberLess(target_pH_high, current_pH)
  /\ armed_at >= 0
  /\ read_at >= armed_at + pH_read_interval - MaxSkew

====
